---- MODULE Spec2Model ----
(***************************************************************************)
(* Availability change detection and notification decisions of            *)
(* watcher.py (run_once): the per-slot decision state machine, the         *)
(* milestone computation, the presence bookkeeping and the read-modify-    *)
(* write of the stored state.                                              *)
(*                                                                         *)
(* Time is in epoch seconds.  The venue's local calendar day of an instant *)
(* is its day number (the time zone is a fixed offset and is left out).    *)
(* A calendar day string ("%Y-%m-%d") is modelled by that day number.      *)
(***************************************************************************)
EXTENDS Integers, Sequences, FiniteSets, TLC

\* Python's None (day numbers, timestamps and milestones are all >= 0)
None == 0 - 1

-----------------------------------------------------------------------------
\* Bounds of the model
\* the clock runs over the days Day0 .. Day0 + MaxDay
MaxDay == 2

-----------------------------------------------------------------------------
\* Configuration (watcher.py, environment defaults), with both services
\* enabled (ENABLE_DINNER, ENABLE_LUNCH) and the Gist credentials set
RENOTIFY_MINUTES == 120
LUNCH_MAX_DAYS == 2
DINNER_MAX_DAYS == 3
DAILY_CAP_LUNCH == 1
DAILY_CAP_DINNER == 0
STATE_TTL_DAYS == 5
PARTY_SIZES == <<2, 4>>
\* MILESTONES is read from the environment: the default and a second setting
MilestoneConfigs == {<<3, 1, 0>>, <<1, 0>>}

SecondsPerDay == 24 * 3600
\* first instant of the model's clock: day 10 of the epoch, 0:00 local
Epoch0 == 10 * SecondsPerDay
Day0 == Epoch0 \div SecondsPerDay
\* the instants the clock takes within a day: 0:00, exactly one renotify
\* interval later, and 23:00 (one hour, less than the renotify interval,
\* before the next day begins)
Offsets == {0, RENOTIFY_MINUTES * 60, 23 * 3600}
Instants == {(Day0 + d) * SecondsPerDay + o : d \in 0..MaxDay, o \in Offsets}

\* datetime.now(NYC).date() / nyc_today_str() at instant t
LocalDay(t) == t \div SecondsPerDay

-----------------------------------------------------------------------------
\* Slot entries returned by probes.  An entry carries the slot's local date
\* and display time (format_when / compute_slot_dt_nyc of the entry's ISO
\* time or label), and the party size and service of the probe that
\* returned it.
SlotTime(svc) == IF svc = "Lunch" THEN "12:00 PM" ELSE "7:30 PM"
\* a lunch slot three days out and a dinner slot five days out: both are
\* beyond their service's ceiling at first and come within it later, the
\* lunch slot a day before the dinner slot
EntryParties == {PARTY_SIZES[1]}
Entries ==
    { [date |-> Day0 + 3, time |-> SlotTime("Lunch"),
       party |-> p, svc |-> "Lunch"] : p \in EntryParties }
      \cup { [date |-> Day0 + 5, time |-> SlotTime("Dinner"),
              party |-> p, svc |-> "Dinner"] : p \in EntryParties }

\* key = f"{MERCHANT_ID}|{date_str}|{time_str}|{party}|{svc_name}"
SlotKey(e) == <<e.date, e.time, e.party, e.svc>>
Keys == { SlotKey(e) : e \in Entries }

KeySvc(k) == k[4]
KeyParty(k) == k[3]
KeyDate(k) == k[1]

-----------------------------------------------------------------------------
VARIABLES
    clock,             \* time.time()
    MILESTONES,        \* configured milestone thresholds
    store,             \* content of the Gist state file: key -> record
    pc,                \* position of run_once: idle, scan, save, notify
    seen,              \* run_once: working copy of the state
    now_ts,            \* run_once: timestamp taken after the load
    grouped_slots,     \* run_once: ordered groups (slot_key, parties)
    items,             \* run_once: notification items built from the groups
    found_this_run,    \* run_once: keys notified in this run
    present_this_run,  \* run_once: keys observed in this run
    cur,               \* locals of the loop body at the end of an iteration
    returned,          \* keys returned by the probes of this run so far
    last_run,          \* the keys the last completed run's probes returned;
                       \* valid while the clock has not moved since that run
                       \* began and its state was saved
    rerun,             \* valid while this run has loaded what a valid
                       \* last_run saved and the clock has still not moved
    sent               \* the items the last run handed to notify(items)

\* the variables of run_once and of its store
wvars == <<clock, MILESTONES, store, pc, seen, now_ts, grouped_slots, items,
           found_this_run, present_this_run, cur, returned, last_run, rerun,
           sent>>

\* run_once's variables without the clock
wrest == <<MILESTONES, store, pc, seen, now_ts, grouped_slots, items,
           found_this_run, present_this_run, cur, returned, last_run, rerun,
           sent>>

VARIABLES
    max_per_hour,      \* RateLimiter.max_per_hour
    calls,             \* RateLimiter.calls: timestamps of the kept calls
    recorded,          \* every timestamp that the limiter's caller of
                       \* SpecLimiter has had record_call append so far
    outcomes           \* the can_call() results of its guarded attempts

\* the variables of the rate limiter
lvars == <<max_per_hour, calls, recorded, outcomes>>

VARIABLES
    grid               \* a call of a grid enumerator: its arguments, and
                       \* the enumerator and the timestamps it has yielded

VARIABLES
    vip_pc,            \* position of run_vip_watcher: idle, scan, notify,
                       \* done
    vip_pos,           \* run_vip_watcher: window, time slot and party size
                       \* of the next iteration of the party loop
    vip_state,         \* run_vip_watcher: state (working copy)
    vip_store,         \* content of the VIP state file in the Gist
    notifications,     \* run_vip_watcher: notifications (keys, in order)
    vip_found,         \* run_vip_watcher: found_this_run
    probes_issued,     \* instants of the probe requests of this run
    limited,           \* can_call() has returned false in this run
    vip_sent           \* the notifications the last run handed to notify

\* the variables of run_vip_watcher without its limiter
vvars == <<vip_pc, vip_pos, vip_state, vip_store, notifications, vip_found,
           probes_issued, limited, vip_sent>>

VARIABLES
    other,             \* a second process executing run_once on the same
                       \* state file: its position and its locals
    firsts,            \* the keys this run has notified as first sightings
    announced,         \* the first sightings dispatched so far: pairs of
                       \* the process ("this", "other") and the key
    both_loaded,       \* a run has loaded the state while the other run had
                       \* loaded it and not yet saved
    dup_first,         \* a run has dispatched a first sighting of a key
                       \* that an earlier dispatch had announced as one
    lost_record        \* a save has removed an unexpired record from the
                       \* state file

\* the variables of the second process and of the history of the two runs
ovars == <<other, firsts, announced, both_loaded, dup_first, lost_record>>

VARIABLES
    vip_history,       \* for every VIP key, the instant at which
                       \* run_vip_watcher last accepted a notification of
                       \* it
    vip_observed       \* the key of the slot in the response to the last
                       \* probe of run_vip_watcher, <<>> if it held none

\* the history of the observations and notifications of run_vip_watcher
hvars == <<vip_history, vip_observed>>

VARIABLES
    cfg                \* the environment of the process: the program it
                       \* runs, ENABLE_DINNER, ENABLE_LUNCH and the lines of
                       \* VIP_WINDOWS

\* the variables of the other components
aux == <<lvars, grid, vvars, ovars, hvars, cfg>>

vars == <<wvars, aux>>

-----------------------------------------------------------------------------
\* Pure helpers

RECURSIVE SeqMax(_)
SeqMax(s) ==
    IF Len(s) = 1 THEN s[1]
    ELSE LET m == SeqMax(Tail(s)) IN IF s[1] > m THEN s[1] ELSE m

RECURSIVE SeqMin(_)
SeqMin(s) ==
    IF Len(s) = 1 THEN s[1]
    ELSE LET m == SeqMin(Tail(s)) IN IF s[1] < m THEN s[1] ELSE m

\* [m for m in MILESTONES if lead_days <= m]
Reached(lead_days) == SelectSeq(MILESTONES, LAMBDA m : lead_days <= m)

\* the docstring's reading: the smallest threshold not yet passed
current_milestone_lowest(lead_days) ==
    LET reached == Reached(lead_days)
    IN  IF reached # <<>> THEN SeqMin(reached) ELSE None

current_milestone(lead_days) ==
    LET reached == Reached(lead_days)
    IN  IF reached # <<>> THEN SeqMax(reached) ELSE None

IsLunch(service_name) == service_name = "Lunch"
IsDinner(service_name) == service_name = "Dinner"

daily_cap_for(service_name) ==
    IF IsLunch(service_name) THEN DAILY_CAP_LUNCH ELSE DAILY_CAP_DINNER

\* variant: the limits of the two services exchanged
max_days_for_swapped(service_name) ==
    IF IsLunch(service_name) THEN DINNER_MAX_DAYS ELSE LUNCH_MAX_DAYS

max_days_for(service_name) ==
    IF IsLunch(service_name) THEN LUNCH_MAX_DAYS ELSE DINNER_MAX_DAYS

lead_days_int(slot_date, t) ==
    LET delta == slot_date - LocalDay(t)
    IN  IF delta > 0 THEN delta ELSE 0

\* variant: the far-future gate left out
far_future_never(svc_name, lead_days) == FALSE

\* "Absolute far-future suppression by meal (even first sighting)"
far_future(svc_name, lead_days) ==
    \/ IsLunch(svc_name) /\ lead_days > LUNCH_MAX_DAYS
    \/ IsDinner(svc_name) /\ lead_days > DINNER_MAX_DAYS

-----------------------------------------------------------------------------
\* Stored records.  rec.get(field, default) of a missing record reads the
\* defaults of NoRec.  (A legacy bare-integer record n behaves as the record
\* [NoRec EXCEPT !.last_notified = n]; run_once itself never writes one.)
NoRec ==
    [present |-> FALSE, last_notified |-> 0,
     last_milestone |-> None, last_notified_date |-> None]

Lookup(s, key) == IF key \in DOMAIN s THEN s[key] ELSE NoRec

EmptyState == [k \in {} |-> NoRec]

\* variant: the stored content is never read
load_seen_empty(content, t) == EmptyState

\* variant: nothing is pruned
load_seen_all(content, t) == content

\* load_seen: the stored content without the entries older than the TTL
load_seen(content, t) ==
    LET cutoff == t - STATE_TTL_DAYS * 24 * 3600
        kept == {k \in DOMAIN content : content[k].last_notified >= cutoff}
    IN  [k \in kept |-> content[k]]

\* variant: the within-run dedupe left out
already_found_never(key, found) == FALSE

\* "Skip if already seen this slot in this run"
already_found(key, found) == key \in found

\* variant: a reappearance still has to wait for the cooldown
reappear_after_cooldown(l) ==
    l.last_notified > 0 /\ ~l.was_present
        /\ l.now_ts - l.last_notified >= l.min_gap

\* reappear = (last_notified > 0 and not was_present)
reappear(l) == l.last_notified > 0 /\ ~l.was_present

\* variant: the daily cap never applies
daily_cap_hit_never(l) == FALSE

\* daily_cap > 0 and last_notified_date == today_str
daily_cap_hit(l) == l.daily_cap > 0 /\ l.last_notified_date = l.today_str

\* variant: the cooldown must be strictly exceeded
steady_state_strict(l) ==
    IF l.milestone # None /\ l.milestone # l.last_milestone THEN "MILESTONE"
    ELSE IF (l.now_ts - l.last_notified) > l.min_gap THEN "COOLDOWN"
    ELSE "SKIP_COOLDOWN"

\* variant: any defined milestone notifies, the stored one is not compared
steady_state_any_milestone(l) ==
    IF l.milestone # None THEN "MILESTONE"
    ELSE IF (l.now_ts - l.last_notified) >= l.min_gap THEN "COOLDOWN"
    ELSE "SKIP_COOLDOWN"

\* "Milestones or cooldown"
steady_state(l) ==
    IF l.milestone # None /\ l.milestone # l.last_milestone THEN "MILESTONE"
    ELSE IF (l.now_ts - l.last_notified) >= l.min_gap THEN "COOLDOWN"
    ELSE "SKIP_COOLDOWN"

NotifyReasons == {"FIRST_SIGHTING", "REAPPEARED", "MILESTONE", "COOLDOWN"}
SkipReasons == {"SKIP_DAILY_CAP", "SKIP_TOO_FAR", "SKIP_COOLDOWN"}

\* "Decide if we should notify (presence-aware)": the notify reason, or the
\* reason of the skip
decide(l) ==
    IF l.last_notified = 0 THEN "FIRST_SIGHTING"
    ELSE IF reappear(l) THEN "REAPPEARED"
    ELSE IF daily_cap_hit(l) THEN "SKIP_DAILY_CAP"
    ELSE IF l.lead_days > l.max_days THEN "SKIP_TOO_FAR"
    ELSE steady_state(l)

\* variant: the notification day is not recorded
notified_rec_no_date(rec, l) ==
    [present |-> TRUE, last_notified |-> l.now_ts,
     last_milestone |-> l.milestone,
     last_notified_date |-> rec.last_notified_date]

\* "Mark as notified now (persist richer record)"
notified_rec(rec, l) ==
    [present |-> TRUE, last_notified |-> l.now_ts,
     last_milestone |-> l.milestone, last_notified_date |-> l.today_str]

\* variant: the PATCH adds the working state's records to the stored ones
\* and keeps the stored record of a key that both have
save_seen_merge(content, s) ==
    [k \in DOMAIN content \cup DOMAIN s |->
        IF k \in DOMAIN content THEN content[k] ELSE s[k]]

\* save_seen(seen): the PATCH replaces the whole content of the state file
\* by json.dumps(seen)
save_seen(content, s) == s

\* variant: the state is written whether or not the credentials are set
save_seen_call_any(creds, ok, content, s) ==
    IF ok THEN save_seen(content, s) ELSE content

\* a call of save_seen(seen): without GIST_ID / GIST_TOKEN it returns at
\* once; a PATCH that raises is swallowed and leaves the content as it was
save_seen_call(creds, ok, content, s) ==
    IF creds /\ ok THEN save_seen(content, s) ELSE content

\* a call of load_seen() at instant t: {} without GIST_ID / GIST_TOKEN
\* ("skipping load") and {} when the request or the parsing raises
load_seen_call(creds, ok, content, t) ==
    IF creds /\ ok THEN load_seen(content, t) ELSE EmptyState

\* variant: absent slots keep present = true
mark_absent_never(s, present) == s

\* "Mark any previously-present slots that were NOT seen this run as absent"
mark_absent(s, present) ==
    [k \in DOMAIN s |->
        IF s[k].present /\ k \notin present
        THEN [s[k] EXCEPT !.present = FALSE] ELSE s[k]]

\* grouped_slots is an insertion-ordered dict: a sequence of groups
GroupIndex(g, slot_key) ==
    IF \E i \in 1..Len(g) : g[i].slot = slot_key
    THEN CHOOSE i \in 1..Len(g) : g[i].slot = slot_key
    ELSE 0

\* grouped_slots[slot_key].append((party, link)); the link is left out
add_to_group(g, slot_key, party) ==
    LET i == GroupIndex(g, slot_key)
    IN  IF i = 0 THEN Append(g, [slot |-> slot_key, parties |-> <<party>>])
        ELSE [g EXCEPT ![i].parties = Append(@, party)]

\* variant: the party sizes in the order of their insertion
build_items_unsorted(g) ==
    [i \in 1..Len(g) |-> [slot |-> g[i].slot, parties |-> g[i].parties]]

\* one item per group, listing sorted(parties)
build_items(g) ==
    [i \in 1..Len(g) |->
        [slot |-> g[i].slot,
         parties |-> SortSeq(g[i].parties, LAMBDA a, b : a < b)]]

\* number of times key k was added to the groups of this run
RECURSIVE CountIn(_, _)
CountIn(s, x) ==
    IF s = <<>> THEN 0
    ELSE (IF s[1] = x THEN 1 ELSE 0) + CountIn(Tail(s), x)

NotifiedCount(g, k) ==
    LET i == GroupIndex(g, <<KeyDate(k), k[2], KeySvc(k)>>)
    IN  IF i = 0 THEN 0 ELSE CountIn(g[i].parties, KeyParty(k))

-----------------------------------------------------------------------------
\* Locals of the slot loop body
NoCur ==
    [key |-> <<>>, outcome |-> "NONE", lead_days |-> None,
     was_present |-> FALSE, last_notified |-> 0, last_milestone |-> None,
     last_notified_date |-> None, milestone |-> None, today_str |-> None]

NoRun == [valid |-> FALSE, keys |-> {}]

WatcherInit ==
    /\ clock = Epoch0
    /\ MILESTONES \in MilestoneConfigs
    /\ store = EmptyState
    /\ pc = "idle"
    /\ seen = EmptyState
    /\ now_ts = 0
    /\ grouped_slots = <<>>
    /\ items = <<>>
    /\ found_this_run = {}
    /\ present_this_run = {}
    /\ cur = NoCur
    /\ returned = {}
    /\ last_run = NoRun
    /\ rerun = NoRun
    /\ sent = <<>>

\* a limiter that is not in use
LimiterIdle ==
    /\ max_per_hour = 0
    /\ calls = <<>>
    /\ recorded = <<>>
    /\ outcomes = <<>>

\* no grid enumeration under study
GridIdle ==
    grid = [day |-> Day0, start_hm |-> <<0, 0>>, end_hm |-> <<0, 0>>,
            step_min |-> 1, by |-> "none", out |-> <<>>]

\* the loop position before the first and after the last combination
NoPos == [w |-> 0, s |-> 0, p |-> 0]

\* run_vip_watcher not started, its state file holding content
VipAtRest(content) ==
    /\ vip_pc = "idle"
    /\ vip_pos = NoPos
    /\ vip_state = EmptyState
    /\ vip_store = content
    /\ notifications = <<>>
    /\ vip_found = {}
    /\ probes_issued = <<>>
    /\ limited = FALSE
    /\ vip_sent = <<>>

\* run_vip_watcher not started, its state file empty
VipIdle == VipAtRest(EmptyState)

\* the locals of a process that is not executing run_once
NoOther ==
    [pc |-> "idle", seen |-> EmptyState, now_ts |-> 0,
     found_this_run |-> {}, present_this_run |-> {}, grouped_slots |-> <<>>,
     cur |-> NoCur, items |-> <<>>, firsts |-> {}]

\* no second process
OverlapIdle ==
    /\ other = NoOther
    /\ firsts = {}
    /\ announced = {}
    /\ both_loaded = FALSE
    /\ dup_first = FALSE
    /\ lost_record = FALSE

\* no VIP notification so far
HistoryIdle == vip_history = [k \in {} |-> 0] /\ vip_observed = <<>>

\* the environment of the other specifications: both services enabled;
\* VIP_WINDOWS is given there by VipWindows
NoCfg ==
    [program |-> "any", enable_dinner |-> TRUE, enable_lunch |-> TRUE,
     vip_raw |-> <<>>]

ConfigIdle == cfg = NoCfg

\* the other components at rest
AuxInit ==
    /\ LimiterIdle /\ GridIdle /\ VipIdle /\ OverlapIdle /\ HistoryIdle
    /\ ConfigIdle

Init == WatcherInit /\ AuxInit

\* time passes, between runs or between two iterations of the scan loop
\* (the save and the dispatch do not read the clock)
TickTo(I) ==
    /\ pc \in {"idle", "scan"}
    /\ \E t \in I : t > clock /\ clock' = t
    /\ cur' = NoCur
    /\ last_run' = NoRun
    /\ rerun' = NoRun
    /\ sent' = <<>>
    /\ UNCHANGED <<MILESTONES, store, pc, seen, now_ts, grouped_slots, items,
                   found_this_run, present_this_run, returned>>

Tick == TickTo(Instants)

\* run_once, up to the scan loop: load the state, take the timestamp.
\* A failed load (request error, bad JSON) yields the empty state.
StartRunAs(creds, load_ok) ==
    /\ pc = "idle"
    /\ seen' = load_seen_call(creds, load_ok, store, clock)
    /\ rerun' = IF creds /\ load_ok THEN last_run ELSE NoRun
    /\ now_ts' = clock
    /\ grouped_slots' = <<>>
    /\ items' = <<>>
    /\ found_this_run' = {}
    /\ present_this_run' = {}
    /\ cur' = NoCur
    /\ returned' = {}
    /\ last_run' = NoRun
    /\ sent' = <<>>
    /\ pc' = "scan"
    /\ UNCHANGED <<clock, MILESTONES, store>>

\* the load of a process that has the Gist credentials
StartRunWith(load_ok) == StartRunAs(TRUE, load_ok)

StartRun == \E load_ok \in BOOLEAN : StartRunWith(load_ok)

\* the loop body for one slot entry e of a probe response, on the run's
\* working state r (seen, found_this_run, present_this_run, grouped_slots,
\* now_ts) at instant t: the working state after the iteration, and the
\* locals of the iteration in cur
loop_body(r, e, t) ==
    LET key == SlotKey(e)
        lead_days == lead_days_int(e.date, t)
        rec == Lookup(r.seen, key)
        l == [key |-> key,
              lead_days |-> lead_days,
              was_present |-> rec.present,
              last_notified |-> rec.last_notified,
              last_milestone |-> rec.last_milestone,
              last_notified_date |-> rec.last_notified_date,
              max_days |-> max_days_for(e.svc),
              daily_cap |-> daily_cap_for(e.svc),
              today_str |-> LocalDay(t),
              milestone |-> current_milestone(lead_days),
              min_gap |-> RENOTIFY_MINUTES * 60,
              now_ts |-> r.now_ts]
        outcome == decide(l)
        locals == [key |-> key, outcome |-> outcome,
                   lead_days |-> lead_days,
                   was_present |-> l.was_present,
                   last_notified |-> l.last_notified,
                   last_milestone |-> l.last_milestone,
                   last_notified_date |-> l.last_notified_date,
                   milestone |-> l.milestone,
                   today_str |-> l.today_str]
    IN  IF already_found(key, r.found_this_run)
        THEN [r EXCEPT !.cur = [NoCur EXCEPT !.key = key,
                                             !.outcome = "DUPLICATE"]]
        ELSE IF far_future(e.svc, lead_days)
        THEN [r EXCEPT !.cur = [NoCur EXCEPT !.key = key,
                                             !.outcome = "FAR_FUTURE",
                                             !.lead_days = lead_days]]
        ELSE IF outcome \in NotifyReasons
        THEN [r EXCEPT
                !.cur = locals,
                !.present_this_run = @ \cup {key},
                !.seen = [k \in DOMAIN r.seen \cup {key} |->
                             IF k = key THEN notified_rec(rec, l)
                             ELSE r.seen[k]],
                !.found_this_run = @ \cup {key},
                !.grouped_slots =
                    add_to_group(@, <<e.date, e.time, e.svc>>, e.party)]
        ELSE [r EXCEPT
                !.cur = locals,
                !.present_this_run = @ \cup {key},
                !.seen = IF key \in DOMAIN r.seen
                         THEN [r.seen EXCEPT ![key].present = TRUE]
                         ELSE r.seen]

\* one iteration of the slot loop of this run, for the entry e
ProcessEntry(e) ==
    /\ pc = "scan"
    /\ LET r == loop_body([seen |-> seen, now_ts |-> now_ts,
                           found_this_run |-> found_this_run,
                           present_this_run |-> present_this_run,
                           grouped_slots |-> grouped_slots, cur |-> cur],
                          e, clock)
       IN  /\ seen' = r.seen
           /\ found_this_run' = r.found_this_run
           /\ present_this_run' = r.present_this_run
           /\ grouped_slots' = r.grouped_slots
           /\ cur' = r.cur
    /\ returned' = returned \cup {SlotKey(e)}
    /\ UNCHANGED <<clock, MILESTONES, store, pc, now_ts, items, last_run,
                   rerun, sent>>

\* the loop body for one slot entry of a probe response
ProcessSlot == \E e \in Entries : ProcessEntry(e)

\* after the scan: build the items and mark the unobserved slots absent
FinishScan ==
    /\ pc = "scan"
    /\ items' = build_items(grouped_slots)
    /\ seen' = mark_absent(seen, present_this_run)
    /\ cur' = NoCur
    /\ pc' = "save"
    /\ UNCHANGED <<clock, MILESTONES, store, now_ts, grouped_slots,
                   found_this_run, present_this_run, returned, last_run,
                   rerun, sent>>

\* save_seen(seen), called twice with the same state; a failed PATCH is
\* swallowed and leaves the stored content as it was
SaveStateAs(creds, save_ok) ==
    /\ pc = "save"
    /\ store' = save_seen_call(creds, save_ok, store, seen)
    /\ last_run' = IF creds /\ save_ok /\ clock = now_ts
                   THEN [valid |-> TRUE, keys |-> returned]
                   ELSE NoRun
    /\ pc' = "notify"
    /\ UNCHANGED <<clock, MILESTONES, seen, now_ts, grouped_slots, items,
                   found_this_run, present_this_run, cur, returned, rerun,
                   sent>>

\* the save of a process that has the Gist credentials
SaveStateWith(save_ok) == SaveStateAs(TRUE, save_ok)

SaveState == \E save_ok \in BOOLEAN : SaveStateWith(save_ok)

\* notify(items), or "No NEW openings this run."; run_once returns
Dispatch ==
    /\ pc = "notify"
    /\ pc' = "idle"
    /\ seen' = EmptyState
    /\ now_ts' = 0
    /\ grouped_slots' = <<>>
    /\ items' = <<>>
    /\ found_this_run' = {}
    /\ present_this_run' = {}
    /\ returned' = {}
    /\ rerun' = NoRun
    /\ sent' = items
    /\ UNCHANGED <<clock, MILESTONES, store, cur, last_run>>

\* a probe raises (network error, timeout, non-2xx status, a body that is
\* not JSON): the exception is caught, "Probe failed" is printed and the
\* party loop continues with the next combination
ProbeFail ==
    /\ pc = "scan"
    /\ cur' = [NoCur EXCEPT !.outcome = "PROBE_FAILED"]
    /\ UNCHANGED <<clock, MILESTONES, store, pc, seen, now_ts, grouped_slots,
                   items, found_this_run, present_this_run, returned,
                   last_run, rerun, sent>>

\* a probe returns JSON of another shape than the loop reads (a list, or
\* "types": null): data.get / the iteration raises outside the try, the
\* exception leaves run_once and ends the process: nothing is saved and
\* nothing is dispatched
ProbeMalformed ==
    /\ pc = "scan"
    /\ pc' = "idle"
    /\ cur' = [NoCur EXCEPT !.outcome = "ABORTED"]
    /\ seen' = EmptyState
    /\ now_ts' = 0
    /\ grouped_slots' = <<>>
    /\ items' = <<>>
    /\ found_this_run' = {}
    /\ present_this_run' = {}
    /\ returned' = {}
    /\ rerun' = NoRun
    /\ UNCHANGED <<clock, MILESTONES, store, last_run, sent>>

\* the steps of run_once and of the clock
Run ==
    \/ Tick
    \/ StartRun
    \/ ProcessSlot
    \/ ProbeFail
    \/ ProbeMalformed
    \/ FinishScan
    \/ SaveState
    \/ Dispatch

Next ==
    \/ Tick /\ UNCHANGED aux
    \/ StartRun /\ UNCHANGED aux
    \/ ProcessSlot /\ UNCHANGED aux
    \/ ProbeFail /\ UNCHANGED aux
    \/ ProbeMalformed /\ UNCHANGED aux
    \/ FinishScan /\ UNCHANGED aux
    \/ SaveState /\ UNCHANGED aux
    \/ Dispatch /\ UNCHANGED aux

Spec == Init /\ [][Next]_vars

-----------------------------------------------------------------------------
\* Vocabulary of the properties

\* the last iteration got past the dedupe and the far-future gate
Decided == cur.outcome \in NotifyReasons \cup SkipReasons
\* the last iteration notified its key
Notified == cur.outcome \in NotifyReasons

\* the far-future ceiling of a service, as configured
Ceiling(svc) == IF svc = "Lunch" THEN LUNCH_MAX_DAYS ELSE DINNER_MAX_DAYS
\* the daily cap of a service, as configured
Cap(svc) == IF svc = "Lunch" THEN DAILY_CAP_LUNCH ELSE DAILY_CAP_DINNER

\* the three notification fields of a record
Fields(r) == <<r.last_notified, r.last_milestone, r.last_notified_date>>

\* the configured thresholds that are >= ld
ThresholdsAtLeast(ld) ==
    {MILESTONES[i] : i \in {j \in DOMAIN MILESTONES : MILESTONES[j] >= ld}}

-----------------------------------------------------------------------------
\* C1 (first sighting): while a run scans and until it saves, every key
\* observed within its ceiling in this run that has no record in the store
\* has been notified exactly once in this run (one entry in the groups, the
\* key in found_this_run, its record stamped with the run's timestamp),
\* whatever its service's daily cap, the cooldown, the milestone and the
\* number of entries that returned it.
C1_FirstSightingOnce ==
    pc \in {"scan", "save"} =>
        \A k \in present_this_run :
            k \notin DOMAIN store =>
                /\ NotifiedCount(grouped_slots, k) = 1
                /\ k \in found_this_run
                /\ k \in DOMAIN seen
                /\ seen[k].last_notified = now_ts

\* a lunch key (daily cap 1) without stored record, with no milestone,
\* returned a second time in the run after time has passed
C1_Witness ==
    /\ pc = "scan"
    /\ cur.outcome = "DUPLICATE"
    /\ KeySvc(cur.key) = "Lunch"
    /\ cur.key \notin DOMAIN store
    /\ cur.key \in present_this_run
    /\ seen[cur.key].last_milestone = None
    /\ clock > now_ts
    /\ NotifiedCount(grouped_slots, cur.key) = 1

\* C4 (daily cap): an entry of a service with daily cap 1 whose key was
\* present in the previous run and was last notified on the current local
\* calendar day is not notified: the outcome is the daily-cap skip, whether
\* or not the cooldown has expired or the milestone differs, and the
\* record's notification fields stay as they were.
C4_DailyCap ==
    ( /\ Decided
      /\ Cap(KeySvc(cur.key)) = 1
      /\ cur.last_notified > 0
      /\ cur.was_present
      /\ cur.last_notified_date = LocalDay(clock) )
    => /\ cur.outcome = "SKIP_DAILY_CAP"
       /\ cur.key \notin found_this_run
       /\ NotifiedCount(grouped_slots, cur.key) = 0
       /\ Fields(seen[cur.key]) = <<cur.last_notified, cur.last_milestone,
                                    cur.last_notified_date>>

\* a second trigger on the same day (the cooldown has expired) is skipped
C4_Witness ==
    /\ cur.outcome = "SKIP_DAILY_CAP"
    /\ Cap(KeySvc(cur.key)) = 1
    /\ cur.was_present
    /\ cur.last_notified_date = LocalDay(clock)
    /\ now_ts - cur.last_notified >= RENOTIFY_MINUTES * 60

\* C5 (steady state): for an entry whose key was notified before and was
\* present in the previous run, not suppressed by the daily cap nor by the
\* lead-time window, the key is notified iff the computed milestone is
\* defined and differs from the stored one, or the run's timestamp is at
\* least the renotify interval after the stored last_notified.
C5_SteadyState ==
    ( /\ Decided
      /\ cur.last_notified > 0
      /\ cur.was_present
      /\ ~(Cap(KeySvc(cur.key)) > 0 /\ cur.last_notified_date = cur.today_str)
      /\ ~(cur.lead_days > Ceiling(KeySvc(cur.key))) )
    => /\ Notified <=>
            \/ cur.milestone # None /\ cur.milestone # cur.last_milestone
            \/ now_ts - cur.last_notified >= RENOTIFY_MINUTES * 60
       /\ Notified <=> cur.key \in found_this_run
       /\ Notified <=> NotifiedCount(grouped_slots, cur.key) = 1

\* a milestone change notifies although the cooldown has not expired
C5_Witness ==
    /\ cur.outcome = "MILESTONE"
    /\ cur.was_present
    /\ cur.last_notified > 0
    /\ now_ts - cur.last_notified < RENOTIFY_MINUTES * 60
    /\ cur.key \in found_this_run

C10_DocstringExample ==
    (MILESTONES = <<3, 1, 0>> /\ Decided) =>
        /\ cur.lead_days = 2 => cur.milestone = 3
        /\ cur.lead_days = 1 => cur.milestone = 1
        /\ cur.lead_days = 0 => cur.milestone = 0
        /\ cur.lead_days = 5 => cur.milestone = None

-----------------------------------------------------------------------------
\* a step that runs the loop body for one entry (it alone leaves locals
\* that name a key)
SlotStep == pc = "scan" /\ pc' = "scan" /\ cur'.key # <<>>

\* C2 (reappearance): whenever the loop body runs for a key whose record
\* was notified before (last_notified > 0) and is marked absent
\* (present = false), the key is notified in that step: it is not taken for
\* far-future, the outcome is REAPPEARED, its record is stamped with the
\* run's timestamp and it joins the groups; also when the renotify interval
\* has not passed and when a daily cap applies and the record was notified
\* on the same calendar day.
C2_Reappearance ==
    [][ \A k \in DOMAIN seen :
          ( /\ SlotStep
            /\ cur'.key = k
            /\ seen[k].last_notified > 0
            /\ ~seen[k].present )
          => /\ cur'.outcome = "REAPPEARED"
             /\ k \in found_this_run'
             /\ k \in present_this_run'
             /\ seen'[k].last_notified = now_ts
             /\ seen'[k].present
             /\ NotifiedCount(grouped_slots', k) = 1 ]_vars

\* a lunch key (daily cap 1) reappears on the day it was last notified,
\* before the renotify interval has passed
C2_Witness ==
    /\ cur.outcome = "REAPPEARED"
    /\ Cap(KeySvc(cur.key)) > 0
    /\ cur.last_notified_date = LocalDay(clock)
    /\ now_ts - cur.last_notified < RENOTIFY_MINUTES * 60
    /\ cur.key \in found_this_run
    /\ seen[cur.key].present

\* C3 (idempotence): a run that loaded the state saved by the previous run,
\* with the clock unchanged since the previous run began, and whose probes
\* returned the same keys as the previous run's, reaches the save with no
\* notification (no group, no item, no key found) and with the same records
\* and notification fields as the stored state.  (RENOTIFY_MINUTES is
\* positive.)
C3_Idempotent ==
    ( /\ pc = "save"
      /\ rerun.valid
      /\ returned = rerun.keys )
    => /\ grouped_slots = <<>>
       /\ items = <<>>
       /\ found_this_run = {}
       /\ DOMAIN seen = DOMAIN store
       /\ \A k \in DOMAIN seen : Fields(seen[k]) = Fields(store[k])

\* the second of two such runs, in which both keys were returned and the
\* first run notified one of them at this very instant
C3_Witness ==
    /\ pc = "save"
    /\ rerun.valid
    /\ returned = rerun.keys
    /\ returned = Keys
    /\ \E k \in present_this_run :
          k \in DOMAIN store /\ store[k].last_notified = now_ts
    /\ RENOTIFY_MINUTES > 0

\* C6 (far-future suppression): a loop body step for an entry whose lead
\* time is above its service's ceiling changes neither the working state
\* nor the groups, the found and present sets, the items or the store: the
\* run goes on exactly as if the entry had not been returned.
C6_FarFuture ==
    [][ ( /\ SlotStep
          /\ lead_days_int(KeyDate(cur'.key), clock)
                > Ceiling(KeySvc(cur'.key)) )
        => /\ cur'.outcome = "FAR_FUTURE"
           /\ UNCHANGED <<seen, grouped_slots, found_this_run,
                          present_this_run, items, store, now_ts>> ]_vars

\* a dinner entry beyond its ceiling is met in a run that has observed and
\* notified the other key
C6_Witness ==
    /\ cur.outcome = "FAR_FUTURE"
    /\ KeySvc(cur.key) = "Dinner"
    /\ cur.key \notin DOMAIN seen
    /\ cur.key \notin present_this_run
    /\ found_this_run # {}

\* C7 (presence): in the state a run saves, a record has present = true
\* exactly if its key is in present_this_run, whether the key was notified
\* or skipped; and when the clock has not moved during the run,
\* present_this_run is the set of returned keys whose lead time is within
\* their service's ceiling.  After a successful save the store holds that
\* state.
C7_Presence ==
    pc \in {"save", "notify"} =>
        /\ \A k \in DOMAIN seen : seen[k].present <=> k \in present_this_run
        /\ present_this_run \subseteq DOMAIN seen
        /\ clock = now_ts =>
              present_this_run =
                 {k \in returned :
                     lead_days_int(KeyDate(k), clock) <= Ceiling(KeySvc(k))}
        /\ (pc = "notify" /\ last_run.valid) => store = seen

\* a saved state with a key observed but not notified (present) and a key
\* not observed (absent)
C7_Witness ==
    /\ pc = "notify"
    /\ store = seen
    /\ \E k \in DOMAIN seen :
          seen[k].present /\ k \notin found_this_run
    /\ \E k \in DOMAIN seen : ~seen[k].present

\* C8 (notification fields): during the scan and the marking of absent
\* slots, a record's last_notified, last_milestone and last_notified_date
\* change only in the step that notifies its key, which sets them to the
\* run's timestamp, the milestone computed for the entry and the current
\* local calendar day; every other record keeps them, and no record
\* appears otherwise.  The load takes the fields from the store, and the
\* store changes only by saving the working state.
C8_FieldsFrame ==
    [][ /\ (pc = "scan" /\ pc' \in {"scan", "save"}) =>
              \A k \in DOMAIN seen' :
                 IF k \in found_this_run' \ found_this_run
                 THEN /\ cur'.key = k
                      /\ Fields(seen'[k]) =
                            <<now_ts, cur'.milestone, LocalDay(clock)>>
                      /\ cur'.milestone =
                            current_milestone(
                               lead_days_int(KeyDate(k), clock))
                 ELSE /\ k \in DOMAIN seen
                      /\ Fields(seen'[k]) = Fields(seen[k])
        /\ (pc = "idle" /\ pc' = "scan") =>
              \A k \in DOMAIN seen' :
                 k \in DOMAIN store /\ Fields(seen'[k]) = Fields(store[k])
        /\ store' # store => (pc = "save" /\ store' = seen) ]_vars

\* a renotification after the cooldown overwrote older fields while the
\* other key's record, observed but not notified, kept its own
C8_Witness ==
    /\ cur.outcome = "COOLDOWN"
    /\ cur.last_notified < now_ts
    /\ Fields(seen[cur.key]) = <<now_ts, cur.milestone, LocalDay(clock)>>
    /\ \E k \in present_this_run :
          k \notin found_this_run /\ seen[k].last_notified < now_ts

-----------------------------------------------------------------------------
\* Serialized runs over one dinner slot that stays available, with the
\* default MILESTONES, on the days on which its lead time is 5, 2, 1 and 0;
\* on each day a run can take place at 0:00 and at 23:00, so that the run
\* of the next day at 0:00 comes before the renotify interval has elapsed.
\* The store and the probes are available.
MilestoneLeads == {5, 2, 1, 0}
MilestoneEntry == CHOOSE e \in Entries : e.svc = "Dinner"
MilestoneInstants ==
    {(MilestoneEntry.date - ld) * SecondsPerDay + o :
        ld \in MilestoneLeads, o \in {0, 23 * 3600}}

MilestoneInit == Init /\ MILESTONES = <<3, 1, 0>>

MilestoneNext ==
    \/ TickTo(MilestoneInstants) /\ UNCHANGED aux
    \/ StartRunWith(TRUE) /\ UNCHANGED aux
    \/ ProcessEntry(MilestoneEntry) /\ UNCHANGED aux
    \/ FinishScan /\ UNCHANGED aux
    \/ SaveStateWith(TRUE) /\ UNCHANGED aux
    \/ Dispatch /\ UNCHANGED aux

SpecMilestone == MilestoneInit /\ [][MilestoneNext]_vars

\* C11 (milestone example): with thresholds [3,1,0], the slot is notified
\* at lead time 2 with recorded milestone 3, and, having been notified at
\* milestone 3 on an earlier day and still present, it is notified at lead
\* time 0 because of the milestone change, with recorded milestone 0,
\* whether or not the renotify interval has elapsed.
C11_MilestoneExample ==
    (MILESTONES = <<3, 1, 0>> /\ Decided) =>
        /\ (cur.lead_days = 2 /\ cur.last_notified = 0) =>
              /\ Notified
              /\ seen[cur.key].last_milestone = 3
        /\ ( /\ cur.lead_days = 0
             /\ cur.was_present
             /\ cur.last_milestone = 3
             /\ cur.last_notified_date < cur.today_str ) =>
              /\ cur.outcome = "MILESTONE"
              /\ cur.milestone = 0
              /\ seen[cur.key].last_milestone = 0

-----------------------------------------------------------------------------
\* Serialized runs over two lunch slots (daily cap 1) of different dates,
\* both within the lunch ceiling from the first day on, over the first two
\* days of the clock.  The store and the probes are available.
CapEntries ==
    { [date |-> Day0 + d, time |-> SlotTime("Lunch"),
       party |-> PARTY_SIZES[1], svc |-> "Lunch"] : d \in {1, 2} }
CapInstants == {t \in Instants : LocalDay(t) <= Day0 + 1}

CapNext ==
    \/ TickTo(CapInstants) /\ UNCHANGED aux
    \/ StartRunWith(TRUE) /\ UNCHANGED aux
    \/ (\E e \in CapEntries : ProcessEntry(e)) /\ UNCHANGED aux
    \/ FinishScan /\ UNCHANGED aux
    \/ SaveStateWith(TRUE) /\ UNCHANGED aux
    \/ Dispatch /\ UNCHANGED aux

SpecCap == Init /\ [][CapNext]_vars

\* some other slot of the service of the last iteration's key carries a
\* notification of the current calendar day
ServiceNotifiedToday ==
    \E k \in DOMAIN seen :
        /\ k # cur.key
        /\ KeySvc(k) = KeySvc(cur.key)
        /\ seen[k].last_notified_date = cur.today_str

\* C12 (per-service daily cap): an entry of a service with a positive daily
\* cap whose key is in steady state (notified before, present in the
\* previous run) is not notified when another slot of the same service has
\* already been notified on the current calendar day.
C12_PerServiceCap ==
    ( /\ Decided
      /\ Cap(KeySvc(cur.key)) > 0
      /\ cur.last_notified > 0
      /\ cur.was_present
      /\ ServiceNotifiedToday )
    => ~Notified

-----------------------------------------------------------------------------
\* RateLimiter (vip_watcher.py): a limiter used by a caller that calls
\* can_call, record_call and remaining in any order while time advances,
\* and that makes guarded attempts (record_call only when can_call() is
\* true).

\* ceilings 1 .. MaxCeiling
MaxCeiling == 2
\* the clock takes the half hours 0 .. MaxHalfHours after Epoch0, and the
\* second after each
MaxHalfHours == 2
\* at most MaxCeiling + MaxExtraCalls calls are recorded
MaxExtraCalls == 1
\* the guarded loop makes ceiling + ExtraAttempts attempts
ExtraAttempts == 5

WindowSeconds == 3600
LimiterInstants ==
    {Epoch0 + h * (WindowSeconds \div 2) + d : h \in 0..MaxHalfHours,
                                               d \in {0, 1}}

\* variant: a call of exactly 3600 seconds ago is kept
prune_inclusive(cs, now) == SelectSeq(cs, LAMBDA t : now - t <= WindowSeconds)

\* [t for t in self.calls if now - t < 3600]
prune(cs, now) == SelectSeq(cs, LAMBDA t : now - t < WindowSeconds)

\* the value can_call() returns at instant now
can_call(cs, now) == Len(prune(cs, now)) < max_per_hour

\* the value remaining() returns at instant now
remaining(cs, now) ==
    LET left == max_per_hour - Len(prune(cs, now))
    IN  IF left > 0 THEN left ELSE 0

\* RateLimiter(max_per_hour): __init__
LimiterInit ==
    /\ max_per_hour \in 1..MaxCeiling
    /\ calls = <<>>
    /\ recorded = <<>>
    /\ outcomes = <<>>

\* can_call(): the expired calls are dropped from self.calls
CanCall ==
    /\ calls' = prune(calls, clock)
    /\ UNCHANGED <<max_per_hour, recorded, outcomes>>

\* record_call()
RecordCall ==
    /\ Len(recorded) < MaxCeiling + MaxExtraCalls
    /\ calls' = Append(calls, clock)
    /\ recorded' = Append(recorded, clock)
    /\ UNCHANGED <<max_per_hour, outcomes>>

\* remaining(): the expired calls are dropped from self.calls
Remaining ==
    /\ calls' = prune(calls, clock)
    /\ UNCHANGED <<max_per_hour, recorded, outcomes>>

\* one guarded attempt of a loop that runs within the first second:
\* if limiter.can_call(): limiter.record_call()
Attempt ==
    /\ clock <= Epoch0 + 1
    /\ Len(outcomes) < max_per_hour + ExtraAttempts
    /\ outcomes' = Append(outcomes, can_call(calls, clock))
    /\ IF can_call(calls, clock)
       THEN /\ calls' = Append(prune(calls, clock), clock)
            /\ recorded' = Append(recorded, clock)
       ELSE /\ calls' = prune(calls, clock)
            /\ UNCHANGED recorded
    /\ UNCHANGED max_per_hour

\* time.time() advances
LimiterTick ==
    /\ \E t \in LimiterInstants : t > clock /\ clock' = t
    /\ UNCHANGED lvars

LimiterNext ==
    \/ LimiterTick /\ UNCHANGED <<wrest, grid, vvars, ovars, hvars, cfg>>
    \/ CanCall /\ UNCHANGED <<wvars, grid, vvars, ovars, hvars, cfg>>
    \/ RecordCall /\ UNCHANGED <<wvars, grid, vvars, ovars, hvars, cfg>>
    \/ Remaining /\ UNCHANGED <<wvars, grid, vvars, ovars, hvars, cfg>>
    \/ Attempt /\ UNCHANGED <<wvars, grid, vvars, ovars, hvars, cfg>>

LimiterSpecInit ==
    /\ WatcherInit /\ LimiterInit /\ GridIdle /\ VipIdle /\ OverlapIdle
    /\ HistoryIdle /\ ConfigIdle

SpecLimiter == LimiterSpecInit /\ [][LimiterNext]_vars

\* the number of recorded calls younger than 3600 seconds at instant now
Young(now) ==
    Cardinality({i \in DOMAIN recorded : now - recorded[i] < WindowSeconds})

\* the guarded attempts are all the limiter has seen, within one second
OneSecondBurst ==
    /\ clock <= Epoch0 + 1
    /\ Len(recorded) = CountIn(outcomes, TRUE)

\* C13 (RateLimiter contract): at every instant, after any sequence of
\* operations, can_call() returns true exactly when the number of recorded
\* calls younger than 3600 seconds is below the ceiling, and remaining()
\* returns max(0, ceiling - that number); after ceiling + 5 guarded attempts
\* within one second on a new limiter, the final 5 attempts were refused
\* (and only those) and remaining() is 0.
C13_RateLimiter ==
    /\ can_call(calls, clock) <=> (Young(clock) < max_per_hour)
    /\ remaining(calls, clock) =
          (IF max_per_hour - Young(clock) > 0
           THEN max_per_hour - Young(clock) ELSE 0)
    /\ (OneSecondBurst /\ Len(outcomes) = max_per_hour + ExtraAttempts) =>
          /\ \A i \in DOMAIN outcomes : outcomes[i] <=> (i <= max_per_hour)
          /\ remaining(calls, clock) = 0

\* ceiling + 5 guarded attempts within the first second, the final 5
\* refused; exactly 3600 seconds later the recorded calls have expired and
\* the limiter admits calls again
C13_Witness ==
    /\ Len(outcomes) = max_per_hour + ExtraAttempts
    /\ \A i \in DOMAIN outcomes : outcomes[i] <=> (i <= max_per_hour)
    /\ Len(recorded) = max_per_hour
    /\ \A i \in DOMAIN recorded : recorded[i] = Epoch0
    /\ clock = Epoch0 + WindowSeconds
    /\ can_call(calls, clock)
    /\ remaining(calls, clock) = max_per_hour

-----------------------------------------------------------------------------
\* The grid enumerators iter_grid (watcher.py) and iter_vip_time_slots
\* (vip_watcher.py).  A local datetime of the venue's zone is modelled by
\* its number of minutes since the epoch's local midnight: arithmetic and
\* comparison of datetimes of one zone are those of the wall clock.

\* the times of day 17:00 .. (17 + MaxGridHours):45, by quarter hours
MaxGridHours == 1
GridTimes == {<<h, m>> : h \in 17..(17 + MaxGridHours), m \in {0, 15, 30, 45}}
GridSteps == {1, 7, 15, 30, 45, 60}
GridDays == {Day0, Day0 + 1}

MinutesPerDay == 24 * 60
\* datetime(day.year, day.month, day.day, h, m, tzinfo=NYC)
local_datetime(day, hm) == day * MinutesPerDay + hm[1] * 60 + hm[2]

\* variant: the loop stops before the end time
RECURSIVE grid_loop_exclusive(_, _, _)
grid_loop_exclusive(t, end, step_min) ==
    IF t < end
    THEN <<t>> \o grid_loop_exclusive(t + step_min, end, step_min)
    ELSE <<>>

\* while t <= end: yield t; t += timedelta(minutes=step_min)
RECURSIVE grid_loop(_, _, _)
grid_loop(t, end, step_min) ==
    IF t <= end
    THEN <<t>> \o grid_loop(t + step_min, end, step_min)
    ELSE <<>>

iter_grid(day, start_hm, end_hm, step_min) ==
    grid_loop(local_datetime(day, start_hm), local_datetime(day, end_hm),
              step_min)

\* while current <= end: yield current; current += timedelta(minutes=...)
RECURSIVE vip_slot_loop(_, _, _)
vip_slot_loop(current, end, step_minutes) ==
    IF current <= end
    THEN <<current>> \o vip_slot_loop(current + step_minutes, end,
                                      step_minutes)
    ELSE <<>>

iter_vip_time_slots(window, step_minutes) ==
    vip_slot_loop(local_datetime(window.date, window.start_time),
                  local_datetime(window.date, window.end_time),
                  step_minutes)

\* a day, a start and an end time of day with start <= end, a step >= 1
GridInit ==
    \E day \in GridDays, start_hm \in GridTimes, end_hm \in GridTimes,
       step_min \in GridSteps :
        /\ local_datetime(day, start_hm) <= local_datetime(day, end_hm)
        /\ grid = [day |-> day, start_hm |-> start_hm, end_hm |-> end_hm,
                   step_min |-> step_min, by |-> "none", out |-> <<>>]

\* list(iter_grid(day, start_hm, end_hm, step_min))
IterGrid ==
    /\ grid.by = "none"
    /\ grid' = [grid EXCEPT
                  !.by = "iter_grid",
                  !.out = iter_grid(grid.day, grid.start_hm, grid.end_hm,
                                    grid.step_min)]

\* list(iter_vip_time_slots(window, step_minutes))
IterVipTimeSlots ==
    /\ grid.by = "none"
    /\ grid' = [grid EXCEPT
                  !.by = "iter_vip_time_slots",
                  !.out = iter_vip_time_slots(
                              [date |-> grid.day,
                               start_time |-> grid.start_hm,
                               end_time |-> grid.end_hm],
                              grid.step_min)]

GridNext ==
    \/ IterGrid /\ UNCHANGED <<wvars, lvars, vvars, ovars, hvars, cfg>>
    \/ IterVipTimeSlots /\ UNCHANGED <<wvars, lvars, vvars, ovars, hvars, cfg>>

GridSpecInit ==
    /\ WatcherInit /\ LimiterIdle /\ GridInit /\ VipIdle /\ OverlapIdle
    /\ HistoryIdle /\ ConfigIdle

SpecGrid == GridSpecInit /\ [][GridNext]_vars

\* start, end and the number floor((end - start) / step) + 1 of a call
GridStart == local_datetime(grid.day, grid.start_hm)
GridEnd == local_datetime(grid.day, grid.end_hm)
GridCount == ((GridEnd - GridStart) \div grid.step_min) + 1

\* C16 (grid enumerators): for a day, start <= end and step >= 1, the
\* enumerator has yielded exactly floor((end - start) / step) + 1
\* timestamps, the i-th being start + (i - 1) * step (strictly increasing
\* by step from start), all <= end, the last one being end when
\* (end - start) is a multiple of step.
C16_Grid ==
    grid.by # "none" =>
        /\ Len(grid.out) = GridCount
        /\ \A i \in DOMAIN grid.out :
              /\ grid.out[i] = GridStart + (i - 1) * grid.step_min
              /\ grid.out[i] <= GridEnd
        /\ ((GridEnd - GridStart) % grid.step_min = 0) =>
              grid.out[Len(grid.out)] = GridEnd

\* iter_vip_time_slots over a window whose length is a multiple of the
\* step, with at least three timestamps, the last one being the end
C16_Witness ==
    /\ grid.by = "iter_vip_time_slots"
    /\ (GridEnd - GridStart) % grid.step_min = 0
    /\ Len(grid.out) >= 3
    /\ grid.out[Len(grid.out)] = GridEnd
    /\ grid.out[1] = GridStart

-----------------------------------------------------------------------------
\* One execution of run_vip_watcher (vip_watcher.py): the probing loop
\* over the VIP windows, their time slots and their party sizes, under the
\* rate limiter whose ceiling max_per_hour is MAX_CHECKS_PER_HOUR.

\* the clock takes the half hours 0 .. MaxVipHalfHours after Epoch0
MaxVipHalfHours == 2
VipInstants ==
    {Epoch0 + h * (WindowSeconds \div 2) : h \in 0..MaxVipHalfHours}

STEP_MIN == 15
VIP_COOLDOWN == 5 * 60
VIP_TTL == 7 * 24 * 3600

\* VIP_WINDOWS, parsed: two quarter-hour slots for parties of 2 and 4 on
\* the first day, one slot for parties of 2 on the next
VipWindows ==
    << [date |-> Day0, start_time |-> <<18, 0>>, end_time |-> <<18, 15>>,
        party_sizes |-> <<2, 4>>],
       [date |-> Day0 + 1, start_time |-> <<19, 0>>, end_time |-> <<19, 0>>,
        party_sizes |-> <<2>>] >>

\* now_local <= end of the window
is_window_active(window, now) ==
    now \div 60 <= local_datetime(window.date, window.end_time)

\* the windows are all active at every instant of VipInstants
ActiveWindows(now) ==
    SelectSeq(VipWindows, LAMBDA w : is_window_active(w, now))

\* "Dinner" 17:00 - 22:15, "Lunch" 11:15 - 14:00, otherwise None
determine_service_type(dt_local) ==
    LET time_val == dt_local % MinutesPerDay
    IN  IF 17 * 60 <= time_val /\ time_val <= 22 * 60 + 15 THEN "Dinner"
        ELSE IF 11 * 60 + 15 <= time_val /\ time_val <= 14 * 60 THEN "Lunch"
        ELSE "None"

VipSlots(w) == iter_vip_time_slots(VipWindows[w], STEP_MIN)
VipParties(w) == VipWindows[w].party_sizes

\* the loops, as the successor of a position: the next window ...
next_window(pos) ==
    IF pos.w < Len(VipWindows) THEN [w |-> pos.w + 1, s |-> 1, p |-> 1]
    ELSE NoPos
\* ... the next time slot (also what `break` in the party loop leads to) ...
next_slot(pos) ==
    IF pos.s < Len(VipSlots(pos.w)) THEN [pos EXCEPT !.s = @ + 1, !.p = 1]
    ELSE next_window(pos)
\* ... and `break` in the party loop: it leaves that loop only
break_party_loop(pos) == next_slot(pos)
\* ... the next party size (what `continue` leads to)
next_party(pos) ==
    IF pos.p < Len(VipParties(pos.w)) THEN [pos EXCEPT !.p = @ + 1]
    ELSE next_slot(pos)

\* the slot times that the response to the probe of position pos may
\* hold: the probed time and the first time of the window (the API answers
\* with the times nearest to search_ts)
VipOffers(pos) == {VipSlots(pos.w)[pos.s], VipSlots(pos.w)[1]}

\* key = f"VIP|{MERCHANT_ID}|{date_str}|{time_str}|{party}|{service_name}"
\* of a slot at dt in the response to the probe of position pos: date and
\* time are the returned slot's, party size and service the probe's
VipKey(pos, dt) ==
    <<dt \div MinutesPerDay, dt % MinutesPerDay,
      VipParties(pos.w)[pos.p],
      determine_service_type(VipSlots(pos.w)[pos.s])>>

\* state.get(key, {}).get("last_notified", 0)
vip_last_notified(st, key) ==
    IF key \in DOMAIN st THEN st[key].last_notified ELSE 0

\* variant: the state file is not read
load_vip_state_empty(content, now) == EmptyState

\* variant: nothing is pruned
load_vip_state_all(content, now) == content

\* load_vip_state: entries notified less than 7 days ago are kept
load_vip_state(content, now) ==
    LET kept == {k \in DOMAIN content :
                    content[k].last_notified >= now - VIP_TTL}
    IN  [k \in kept |-> content[k]]

\* time passes: the startup delay, the stagger sleeps, the probes
VipTickTo(I) ==
    /\ vip_pc \in {"idle", "scan"}
    /\ \E t \in I : t > clock /\ clock' = t
    /\ UNCHANGED <<lvars, vvars>>

VipTick == VipTickTo(VipInstants)

\* run_vip_watcher up to the loops: some window is active, the state is
\* loaded (a failed load yields the empty state), the limiter is made
VipStartWith(load_ok) ==
    /\ vip_pc = "idle"
    /\ ActiveWindows(clock) # <<>>
    /\ vip_state' = IF load_ok THEN load_vip_state(vip_store, clock)
                    ELSE EmptyState
    /\ calls' = <<>>
    /\ notifications' = <<>>
    /\ vip_found' = {}
    /\ probes_issued' = <<>>
    /\ limited' = FALSE
    /\ vip_sent' = <<>>
    /\ vip_pos' = [w |-> 1, s |-> 1, p |-> 1]
    /\ vip_pc' = "scan"
    /\ UNCHANGED <<max_per_hour, recorded, outcomes, vip_store>>

VipStart == \E load_ok \in BOOLEAN : VipStartWith(load_ok)

\* an iteration of the party loop in which limiter.can_call() is false:
\* "Rate limit reached ... Stopping checks." and break
VipRateLimited ==
    /\ vip_pc = "scan"
    /\ vip_pos # NoPos
    /\ ~can_call(calls, clock)
    /\ calls' = prune(calls, clock)
    /\ limited' = TRUE
    /\ vip_pos' = break_party_loop(vip_pos)
    /\ UNCHANGED <<max_per_hour, recorded, outcomes, vip_pc, vip_state,
                   vip_store, notifications, vip_found, probes_issued,
                   vip_sent>>

\* an iteration whose probe raises: the request has been issued, the
\* except branch continues and limiter.record_call() is not reached
VipProbeError ==
    /\ vip_pc = "scan"
    /\ vip_pos # NoPos
    /\ can_call(calls, clock)
    /\ calls' = prune(calls, clock)
    /\ probes_issued' = Append(probes_issued, clock)
    /\ vip_pos' = next_party(vip_pos)
    /\ UNCHANGED <<max_per_hour, recorded, outcomes, vip_pc, vip_state,
                   vip_store, notifications, vip_found, limited, vip_sent>>

\* an iteration whose probe succeeds: the call is recorded; the response
\* holds a slot at dt (offered) or no slot
VipProbeReturns(offered, dt) ==
    /\ vip_pc = "scan"
    /\ vip_pos # NoPos
    /\ can_call(calls, clock)
    /\ calls' = Append(prune(calls, clock), clock)
    /\ probes_issued' = Append(probes_issued, clock)
    /\ vip_pos' = next_party(vip_pos)
    /\ LET key == VipKey(vip_pos, dt)
           now == clock
           last_notified == vip_last_notified(vip_state, key)
       IN  IF offered /\ key \notin vip_found
                      /\ ~((now - last_notified) < VIP_COOLDOWN)
           THEN /\ vip_state' =
                      [k \in DOMAIN vip_state \cup {key} |->
                          IF k = key THEN [last_notified |-> now]
                          ELSE vip_state[k]]
                /\ vip_found' = vip_found \cup {key}
                /\ notifications' = Append(notifications, key)
           ELSE UNCHANGED <<vip_state, vip_found, notifications>>
    /\ UNCHANGED <<max_per_hour, recorded, outcomes, vip_pc, vip_store,
                   limited, vip_sent>>

VipProbeOk ==
    /\ vip_pos # NoPos
    /\ \E offered \in BOOLEAN, dt \in VipOffers(vip_pos) :
           VipProbeReturns(offered, dt)

\* after the loops: the summary (limiter.remaining()), and
\* `if state: save_vip_state(state)`; a failed PATCH leaves the file as is
VipSaveWith(save_ok) ==
    /\ vip_pc = "scan"
    /\ vip_pos = NoPos
    /\ calls' = prune(calls, clock)
    /\ vip_store' = IF DOMAIN vip_state # {} /\ save_ok THEN vip_state
                    ELSE vip_store
    /\ vip_pc' = "notify"
    /\ probes_issued' = <<>>
    /\ limited' = FALSE
    /\ UNCHANGED <<max_per_hour, recorded, outcomes, vip_pos, vip_state,
                   notifications, vip_found, vip_sent>>

VipSave == \E save_ok \in BOOLEAN : VipSaveWith(save_ok)

\* `if notifications: notify(notifications)`; run_vip_watcher returns and
\* the process ends
VipNotify ==
    /\ vip_pc = "notify"
    /\ vip_sent' = notifications
    /\ vip_pc' = "done"
    /\ vip_state' = EmptyState
    /\ notifications' = <<>>
    /\ vip_found' = {}
    /\ probes_issued' = <<>>
    /\ limited' = FALSE
    /\ calls' = <<>>
    /\ UNCHANGED <<max_per_hour, recorded, outcomes, vip_pos, vip_store>>

\* the scheduler starts the process again
VipRestart ==
    /\ vip_pc = "done"
    /\ vip_pc' = "idle"
    /\ UNCHANGED <<lvars, vip_pos, vip_state, vip_store, notifications,
                   vip_found, probes_issued, limited, vip_sent>>

VipNext ==
    \/ VipTick /\ UNCHANGED <<wrest, grid, ovars, hvars, cfg>>
    \/ VipStart /\ UNCHANGED <<wvars, grid, ovars, hvars, cfg>>
    \/ VipRateLimited /\ UNCHANGED <<wvars, grid, ovars, hvars, cfg>>
    \/ VipProbeError /\ UNCHANGED <<wvars, grid, ovars, hvars, cfg>>
    \/ VipProbeOk /\ UNCHANGED <<wvars, grid, ovars, hvars, cfg>>
    \/ VipSave /\ UNCHANGED <<wvars, grid, ovars, hvars, cfg>>
    \/ VipNotify /\ UNCHANGED <<wvars, grid, ovars, hvars, cfg>>

VipSpecInit ==
    /\ WatcherInit /\ LimiterInit /\ GridIdle /\ VipIdle /\ OverlapIdle
    /\ HistoryIdle /\ ConfigIdle
    /\ MILESTONES = <<3, 1, 0>>

SpecVip == VipSpecInit /\ [][VipNext]_vars

\* the number of probe requests of this run issued in the 3600 seconds up
\* to and including the i-th one
IssuedInWindow(i) ==
    Cardinality({j \in 1..i :
                    probes_issued[i] - probes_issued[j] < WindowSeconds})

\* C14 (probe ceiling): in a run of run_vip_watcher, the probe requests
\* issued within any trailing 3600-second window, whatever their outcome,
\* never number more than MAX_CHECKS_PER_HOUR.
C14_ProbeCeiling ==
    \A i \in DOMAIN probes_issued : IssuedInWindow(i) <= max_per_hour

\* C15 (stop on exhaustion): once can_call() has returned false in a run,
\* no further probe request is issued in the rest of the scan of that run,
\* and the notifications accepted so far are in the state that is saved
\* and are handed to notify.
C15_StopOnLimit ==
    [][ /\ (limited /\ vip_pc = "scan") =>
              Len(probes_issued') <= Len(probes_issued)
        /\ (vip_pc = "scan" /\ vip_pc' = "notify") =>
              /\ \A i \in DOMAIN notifications :
                    notifications[i] \in DOMAIN vip_state
              /\ (vip_store' # vip_store => vip_store' = vip_state)
        /\ (vip_pc = "notify" /\ vip_pc' = "done") =>
              vip_sent' = notifications ]_vars

-----------------------------------------------------------------------------
\* C17 (read-modify-write): in every run of run_once the load is done when
\* the scan begins and nothing has been probed before; the loop body runs
\* only during the scan; the store is written only by the save that
\* follows the scan and the marking of absent slots, and what is written
\* is the whole working state of the run: the store holds the pre-run
\* content until then and the complete post-run state afterwards.
C17_ReadModifyWrite ==
    [][ /\ (pc # "scan" /\ pc' = "scan") =>
              /\ pc = "idle"
              /\ seen' \in {load_seen(store, clock), EmptyState}
              /\ returned' = {}
              /\ store' = store
        /\ (cur'.key # <<>> \/ returned' # returned) =>
              (pc = "scan" \/ pc' = "idle")
        /\ pc' \in {"scan", "save"} => store' = store
        /\ store' # store =>
              /\ pc = "save" /\ pc' = "notify"
              /\ store' = seen
              /\ seen' = seen ]_vars

\* the same for run_vip_watcher: the state is loaded when the scan begins,
\* and the state file is written only after the loops, with the whole
\* working state
VipReadModifyWrite ==
    [][ /\ (vip_pc # "scan" /\ vip_pc' = "scan") =>
              /\ vip_state' \in {load_vip_state(vip_store, clock), EmptyState}
              /\ probes_issued' = <<>>
        /\ Len(probes_issued') > Len(probes_issued) => vip_pc = "scan"
        /\ vip_store' # vip_store =>
              /\ vip_pc = "scan" /\ vip_pos = NoPos /\ vip_pc' = "notify"
              /\ vip_store' = vip_state ]_vars

\* a run has saved: the store holds the run's whole working state, with
\* the record of a key notified in this run and the record, kept from the
\* pre-run content, of a key that this run did not notify
C17_Witness ==
    /\ pc = "notify"
    /\ store = seen
    /\ found_this_run # {}
    /\ \E k \in DOMAIN store : k \notin found_this_run
    /\ \E k \in found_this_run : store[k].last_notified = now_ts

-----------------------------------------------------------------------------
\* Runs of run_once that can be interrupted (the process is killed, the
\* job is cancelled or times out) at any point between the load and the
\* end of the dispatch.

\* the process ends during the scan, before or between the saves, or after
\* the saves and before notify(items) is called
Crash ==
    /\ pc \in {"scan", "save", "notify"}
    /\ pc' = "idle"
    /\ cur' = [NoCur EXCEPT !.outcome = "INTERRUPTED"]
    /\ seen' = EmptyState
    /\ now_ts' = 0
    /\ grouped_slots' = <<>>
    /\ items' = <<>>
    /\ found_this_run' = {}
    /\ present_this_run' = {}
    /\ returned' = {}
    /\ rerun' = NoRun
    /\ last_run' = NoRun
    /\ UNCHANGED <<clock, MILESTONES, store, sent>>

CrashNext ==
    \/ Next
    \/ Crash /\ UNCHANGED aux

SpecCrash == Init /\ [][CrashNext]_vars

\* the items its hold a notification for the key k
InItems(its, k) ==
    \E i \in DOMAIN its :
        /\ its[i].slot = <<KeyDate(k), k[2], KeySvc(k)>>
        /\ \E j \in DOMAIN its[i].parties : its[i].parties[j] = KeyParty(k)

\* the save of this run has written the run's working state to the store
\* (last_run is valid only from a successful save on)
Persisted == pc = "notify" /\ last_run.valid /\ store = seen

\* C18 (at-least-once under crash): when a run ends, by returning or by
\* being interrupted, every key whose decision of this run has been
\* persisted (the store holds the run's record of it, with the run's
\* timestamp as last_notified) has its notification among the items handed
\* to notify.
C18_AtLeastOnce ==
    [][ (pc # "idle" /\ pc' = "idle") =>
            \A k \in found_this_run :
                (Persisted /\ store'[k].last_notified = now_ts)
                    => InItems(sent', k) ]_vars

-----------------------------------------------------------------------------
\* Two processes executing run_once on the same state file: this process and
\* a second one, `other`.  The Gist is read with a plain GET and written
\* with a plain PATCH (no lock, no conditional write).  Loads and saves
\* succeed here.

\* what the probes of either process may return: a dinner slot of tomorrow
OverlapEntries ==
    { [date |-> Day0 + 1, time |-> SlotTime("Dinner"),
       party |-> PARTY_SIZES[1], svc |-> "Dinner"] }

\* the runs begin at the first instant or one renotify interval later
OverlapInstants == {t \in Instants : t <= Epoch0 + RENOTIFY_MINUTES * 60}

\* a PATCH by a run begun at `now` replaces `content` by `written`, which
\* lacks a record of `content` that a load at `now` keeps
drops_record(content, written, now) ==
    \E k \in DOMAIN content :
        /\ content[k].last_notified >= now - STATE_TTL_DAYS * 24 * 3600
        /\ k \notin DOMAIN written

\* a process at position p has loaded the state and not yet saved it
loaded_unsaved(p) == p \in {"scan", "save"}

\* a first sighting of the key k has been dispatched, by either process
was_announced(k) == \E a \in announced : a[2] = k

\* this process: load
ThisStartRun ==
    /\ StartRunWith(TRUE)
    /\ firsts' = {}
    /\ both_loaded' = (both_loaded \/ loaded_unsaved(other.pc))
    /\ UNCHANGED <<other, announced, dup_first, lost_record>>

\* this process: one iteration of the slot loop
ThisProcessEntry(e) ==
    /\ ProcessEntry(e)
    /\ firsts' = IF cur'.outcome = "FIRST_SIGHTING"
                 THEN firsts \cup {cur'.key} ELSE firsts
    /\ UNCHANGED <<other, announced, both_loaded, dup_first, lost_record>>

\* this process: save
ThisSaveState ==
    /\ SaveStateWith(TRUE)
    /\ lost_record' = (lost_record \/ drops_record(store, store', now_ts))
    /\ UNCHANGED <<other, firsts, announced, both_loaded, dup_first>>

\* this process: notify
ThisDispatch ==
    /\ Dispatch
    /\ dup_first' = (dup_first \/ \E k \in firsts : was_announced(k))
    /\ announced' = announced \cup {<<"this", k>> : k \in firsts}
    /\ firsts' = {}
    /\ UNCHANGED <<other, both_loaded, lost_record>>

\* the second process: load_seen(), now_ts
OtherStartRun ==
    /\ other.pc = "idle"
    /\ other' = [NoOther EXCEPT !.pc = "scan",
                                !.seen = load_seen(store, clock),
                                !.now_ts = clock]
    /\ both_loaded' = (both_loaded \/ loaded_unsaved(pc))
    /\ UNCHANGED <<wvars, firsts, announced, dup_first, lost_record>>

\* the second process: one iteration of the slot loop
OtherProcessEntry(e) ==
    /\ other.pc = "scan"
    /\ LET r == loop_body(other, e, clock)
       IN  other' = [r EXCEPT !.firsts =
                        IF r.cur.outcome = "FIRST_SIGHTING"
                        THEN @ \cup {r.cur.key} ELSE @]
    /\ UNCHANGED <<wvars, firsts, announced, both_loaded, dup_first,
                   lost_record>>

\* the second process: build the items, mark the unobserved slots absent
OtherFinishScan ==
    /\ other.pc = "scan"
    /\ other' = [other EXCEPT
                    !.items = build_items(other.grouped_slots),
                    !.seen = mark_absent(other.seen, other.present_this_run),
                    !.cur = NoCur,
                    !.pc = "save"]
    /\ UNCHANGED <<wvars, firsts, announced, both_loaded, dup_first,
                   lost_record>>

\* the second process: save_seen(seen)
OtherSaveState ==
    /\ other.pc = "save"
    /\ store' = save_seen(store, other.seen)
    /\ lost_record' =
           (lost_record \/ drops_record(store, store', other.now_ts))
    /\ other' = [other EXCEPT !.pc = "notify"]
    /\ last_run' = NoRun
    /\ UNCHANGED <<clock, MILESTONES, pc, seen, now_ts, grouped_slots, items,
                   found_this_run, present_this_run, cur, returned, rerun,
                   sent>>
    /\ UNCHANGED <<firsts, announced, both_loaded, dup_first>>

\* the second process: notify(items); run_once returns
OtherDispatch ==
    /\ other.pc = "notify"
    /\ dup_first' = (dup_first \/ \E k \in other.firsts : was_announced(k))
    /\ announced' = announced \cup {<<"other", k>> : k \in other.firsts}
    /\ other' = NoOther
    /\ UNCHANGED <<wvars, firsts, both_loaded, lost_record>>

OverlapNext ==
    \/ TickTo(OverlapInstants) /\ UNCHANGED aux
    \/ ThisStartRun /\ UNCHANGED <<lvars, grid, vvars, hvars, cfg>>
    \/ (\E e \in OverlapEntries : ThisProcessEntry(e))
           /\ UNCHANGED <<lvars, grid, vvars, hvars, cfg>>
    \/ FinishScan /\ UNCHANGED aux
    \/ ThisSaveState /\ UNCHANGED <<lvars, grid, vvars, hvars, cfg>>
    \/ ThisDispatch /\ UNCHANGED <<lvars, grid, vvars, hvars, cfg>>
    \/ OtherStartRun /\ UNCHANGED <<lvars, grid, vvars, hvars, cfg>>
    \/ (\E e \in OverlapEntries : OtherProcessEntry(e))
           /\ UNCHANGED <<lvars, grid, vvars, hvars, cfg>>
    \/ OtherFinishScan /\ UNCHANGED <<lvars, grid, vvars, hvars, cfg>>
    \/ OtherSaveState /\ UNCHANGED <<lvars, grid, vvars, hvars, cfg>>
    \/ OtherDispatch /\ UNCHANGED <<lvars, grid, vvars, hvars, cfg>>

OverlapInit == Init /\ MILESTONES = <<3, 1, 0>>

SpecOverlap == OverlapInit /\ [][OverlapNext]_vars

-----------------------------------------------------------------------------
\* Probe failures in the scan loop of run_once

\* a step in which a probe of the run in flight fails
ProbeFailureStep == pc = "scan" /\ cur'.outcome \in {"PROBE_FAILED", "ABORTED"}

\* the run is still in its scan loop, with its working state and the state
\* file as they were before the failed probe
RunGoesOn ==
    /\ pc' = "scan"
    /\ UNCHANGED <<seen, now_ts, found_this_run, present_this_run,
                   grouped_slots, store>>

\* the failures that probe() raises: caught, the party loop continues
CaughtFailureContinues ==
    [][ (pc = "scan" /\ cur'.outcome = "PROBE_FAILED") => RunGoesOn ]_vars

\* C20 (a probe failure never aborts the run): a failed probe, whether a
\* network error, a non-2xx status or a malformed payload, counts as no
\* data for its combination only: the run stays in its scan loop with its
\* working state untouched, from where it goes on to the remaining
\* combinations, the save and the dispatch.
C20_ProbeFailureContinues == [][ ProbeFailureStep => RunGoesOn ]_vars

-----------------------------------------------------------------------------
\* run_once of a process without GIST_ID / GIST_TOKEN: load_seen returns {}
\* and save_seen returns without a request, whatever the Gist would answer

\* load without credentials
NoCredsStartRun ==
    /\ \E ok \in BOOLEAN : StartRunAs(FALSE, ok)
    /\ firsts' = {}
    /\ UNCHANGED <<other, announced, both_loaded, dup_first, lost_record>>

\* save without credentials
NoCredsSaveState ==
    /\ \E ok \in BOOLEAN : SaveStateAs(FALSE, ok)
    /\ UNCHANGED ovars

NoCredsNext ==
    \/ Tick /\ UNCHANGED aux
    \/ NoCredsStartRun /\ UNCHANGED <<lvars, grid, vvars, hvars, cfg>>
    \/ (\E e \in Entries : ThisProcessEntry(e))
           /\ UNCHANGED <<lvars, grid, vvars, hvars, cfg>>
    \/ FinishScan /\ UNCHANGED aux
    \/ NoCredsSaveState /\ UNCHANGED <<lvars, grid, vvars, hvars, cfg>>
    \/ ThisDispatch /\ UNCHANGED <<lvars, grid, vvars, hvars, cfg>>

SpecNoCreds == Init /\ [][NoCredsNext]_vars

\* the slot of key k is within its service's ceiling at instant t
InLimit(k, t) == lead_days_int(KeyDate(k), t) <= Ceiling(KeySvc(k))

\* C21 (no credentials): the run starts from the empty map and its save
\* writes nothing, so the state file stays empty; every slot within its
\* service's ceiling that a run observes is, at its first entry of the run,
\* a first sighting that is notified; and the dispatch hands over an item
\* for every key notified in the run.
C21_NoCredentials ==
    [][ /\ (pc = "idle" /\ pc' = "scan") => seen' = EmptyState
        /\ store' = EmptyState
        /\ (SlotStep /\ cur'.key \notin found_this_run
                /\ InLimit(cur'.key, clock))
             => /\ cur'.outcome = "FIRST_SIGHTING"
                /\ cur'.key \in found_this_run'
                /\ InItems(build_items(grouped_slots'), cur'.key)
        /\ (pc = "notify" /\ pc' = "idle")
             => \A k \in found_this_run : InItems(sent', k) ]_vars

\* a run has dispatched a first sighting of a key that an earlier run had
\* already dispatched as a first sighting
C21_Witness ==
    /\ dup_first /\ ~both_loaded
    /\ pc = "idle" /\ sent # <<>>
    /\ store = EmptyState

-----------------------------------------------------------------------------
\* A run whose load failed although the credentials are set

\* the run is about to save a working state that lacks a record of the
\* state file which a load at the run's start would have kept: with one
\* process at a time, its load has failed
LoadFailedRun ==
    /\ pc = "save"
    /\ \E k \in DOMAIN store :
           /\ store[k].last_notified >= now_ts - STATE_TTL_DAYS * 24 * 3600
           /\ k \notin DOMAIN seen

\* C22 (a failed load is ephemeral): the end-of-run save of a run whose load
\* failed leaves in the state file every unexpired record that earlier runs
\* persisted.
C22_LoadFailureEphemeral ==
    [][ (LoadFailedRun /\ pc' = "notify")
            => ~drops_record(store, store', now_ts) ]_vars

-----------------------------------------------------------------------------
\* Retention: runs of run_once spread over more than STATE_TTL_DAYS

\* the runs happen on day 0, a day later, exactly STATE_TTL_DAYS after day
\* 0, one second after that, and a day after that
RetentionInstants ==
    {Epoch0 + d * SecondsPerDay : d \in {0, 1, STATE_TTL_DAYS,
                                         STATE_TTL_DAYS + 1}}
        \cup {Epoch0 + STATE_TTL_DAYS * SecondsPerDay + 1}

\* a lunch and a dinner slot of the day after day 0
RetentionEntries ==
    { [date |-> Day0 + 1, time |-> SlotTime(svc),
       party |-> PARTY_SIZES[1], svc |-> svc] : svc \in {"Lunch", "Dinner"} }

RetentionNext ==
    \/ TickTo(RetentionInstants) /\ UNCHANGED aux
    \/ StartRun /\ UNCHANGED aux
    \/ (\E e \in RetentionEntries : ProcessEntry(e)) /\ UNCHANGED aux
    \/ FinishScan /\ UNCHANGED aux
    \/ SaveState /\ UNCHANGED aux
    \/ Dispatch /\ UNCHANGED aux

SpecRetention == Init /\ [][RetentionNext]_vars

\* every record of the state s was notified no longer than the retention
\* window before the instant t
WithinRetention(s, t) ==
    \A k \in DOMAIN s :
        s[k].last_notified >= t - STATE_TTL_DAYS * 24 * 3600

-----------------------------------------------------------------------------
\* Serialized runs of run_vip_watcher whose loads and saves succeed, with
\* the default ceiling of the rate limiter

MAX_CHECKS_PER_HOUR == 120

\* the clock: the first instant, one second less than the cooldown later,
\* and exactly the cooldown later
VipRunInstants == {Epoch0 + o : o \in {0, VIP_COOLDOWN - 1, VIP_COOLDOWN}}

\* the key of the first slot of the first window, for its first party size
VipFirstKey ==
    VipKey([w |-> 1, s |-> 1, p |-> 1], VipSlots(1)[1])

\* the state file before the first run: empty, or with a record of
\* VipFirstKey that a run wrote exactly the retention window before the
\* first instant
VipContents ==
    {EmptyState,
     [k \in {VipFirstKey} |-> [last_notified |-> Epoch0 - VIP_TTL]]}

VipRunsInit ==
    /\ WatcherInit /\ GridIdle /\ OverlapIdle /\ ConfigIdle
    /\ MILESTONES = <<3, 1, 0>>
    /\ max_per_hour = MAX_CHECKS_PER_HOUR
    /\ calls = <<>> /\ recorded = <<>> /\ outcomes = <<>>
    /\ \E content \in VipContents :
         /\ VipAtRest(content)
         /\ vip_history = [k \in DOMAIN content |-> content[k].last_notified]
    /\ vip_observed = <<>>

\* the instant of the last accepted notification of key k, 0 if none
LastAccepted(k) == IF k \in DOMAIN vip_history THEN vip_history[k] ELSE 0

\* a step without a probe response
NoObservation == vip_observed' = <<>> /\ UNCHANGED vip_history

\* a successful probe, with what it returned and accepted noted
VipProbeNoted ==
    /\ vip_pos # NoPos
    /\ \E offered \in BOOLEAN, dt \in VipOffers(vip_pos) :
         /\ VipProbeReturns(offered, dt)
         /\ vip_observed' = IF offered THEN VipKey(vip_pos, dt) ELSE <<>>
    /\ vip_history' =
         IF Len(notifications') > Len(notifications)
         THEN LET key == notifications'[Len(notifications')]
              IN  [k \in DOMAIN vip_history \cup {key} |->
                      IF k = key THEN clock ELSE vip_history[k]]
         ELSE vip_history

VipRunsNext ==
    \/ VipTickTo(VipRunInstants) /\ NoObservation
           /\ UNCHANGED <<wrest, grid, ovars, cfg>>
    \/ VipStartWith(TRUE) /\ NoObservation
           /\ UNCHANGED <<wvars, grid, ovars, cfg>>
    \/ VipProbeNoted /\ UNCHANGED <<wvars, grid, ovars, cfg>>
    \/ VipSaveWith(TRUE) /\ NoObservation
           /\ UNCHANGED <<wvars, grid, ovars, cfg>>
    \/ VipNotify /\ NoObservation /\ UNCHANGED <<wvars, grid, ovars, cfg>>
    \/ VipRestart /\ NoObservation /\ UNCHANGED <<wvars, grid, ovars, cfg>>

SpecVipRuns == VipRunsInit /\ [][VipRunsNext]_vars

\* C28 (VIP cooldown across runs): whenever a probe of run_vip_watcher
\* returns a slot whose key has not been notified in the same run, the key
\* is notified if and only if it was never notified or its last
\* notification, in this or an earlier run, is at least 300 seconds old; a
\* key already notified in the run is not notified again; so two
\* notifications of a key are always at least 300 seconds apart.
C28_VipCooldown ==
    [][ /\ vip_observed' # <<>> =>
              LET k == vip_observed'
                  last == LastAccepted(k)
                  accepted == notifications' = Append(notifications, k)
              IN  IF k \in vip_found THEN notifications' = notifications
                  ELSE accepted <=>
                           (last = 0 \/ clock - last >= VIP_COOLDOWN)
        /\ Len(notifications') > Len(notifications) =>
              LET k == notifications'[Len(notifications')]
              IN  LastAccepted(k) = 0
                      \/ clock - LastAccepted(k) >= VIP_COOLDOWN ]_vars

\* a run notifies a key exactly 300 seconds after the notification of an
\* earlier run, whose record it has loaded from the state file
C28_Witness ==
    /\ vip_pc = "scan"
    /\ vip_observed \in DOMAIN vip_store
    /\ vip_store[vip_observed].last_notified = Epoch0
    /\ vip_observed \in vip_found
    /\ vip_state[vip_observed].last_notified = Epoch0 + VIP_COOLDOWN

\* the retention of run_vip_watcher: the working state that the load
\* yields holds no record notified longer than 7 days before the load
VipRetention ==
    [][ (vip_pc = "idle" /\ vip_pc' = "scan") =>
            \A k \in DOMAIN vip_state' :
                vip_state'[k].last_notified >= clock - VIP_TTL ]_vars

\* a run has loaded a state file whose only record had expired
VipRetentionWitness ==
    /\ vip_pc = "scan"
    /\ VipFirstKey \in DOMAIN vip_store
    /\ VipFirstKey \notin DOMAIN vip_state

-----------------------------------------------------------------------------
\* Grouping of the notified keys into items: runs whose probes return a
\* dinner slot for both party sizes and a lunch slot for the smaller one

GroupEntries ==
    { [date |-> Day0 + 1, time |-> SlotTime("Dinner"),
       party |-> PARTY_SIZES[p], svc |-> "Dinner"] : p \in {1, 2} }
        \cup { [date |-> Day0 + 1, time |-> SlotTime("Lunch"),
                party |-> PARTY_SIZES[1], svc |-> "Lunch"] }

\* the runs begin at the first instant or one renotify interval later
GroupInstants == {t \in Instants : t <= Epoch0 + RENOTIFY_MINUTES * 60}

GroupNext ==
    \/ TickTo(GroupInstants) /\ UNCHANGED aux
    \/ StartRunWith(TRUE) /\ UNCHANGED aux
    \/ (\E e \in GroupEntries : ProcessEntry(e)) /\ UNCHANGED aux
    \/ FinishScan /\ UNCHANGED aux
    \/ SaveStateWith(TRUE) /\ UNCHANGED aux
    \/ Dispatch /\ UNCHANGED aux

GroupInit == Init /\ MILESTONES = <<3, 1, 0>>

SpecGroup == GroupInit /\ [][GroupNext]_vars

\* slot_key = (date_str, time_str, svc_name) of a key
Triple(k) == <<KeyDate(k), k[2], KeySvc(k)>>

\* the items its are the grouping of the keys ks: one item per triple of a
\* key, no two items of the same triple, and every item lists the party
\* sizes of the keys of its triple, each once, in ascending order
GroupingOf(its, ks) ==
    /\ {its[i].slot : i \in DOMAIN its} = {Triple(k) : k \in ks}
    /\ \A i, j \in DOMAIN its : its[i].slot = its[j].slot => i = j
    /\ \A i \in DOMAIN its :
          LET ps == its[i].parties
          IN  /\ {ps[n] : n \in DOMAIN ps} =
                     {KeyParty(k) : k \in {x \in ks : Triple(x) = its[i].slot}}
              /\ \A m, n \in DOMAIN ps : m < n => ps[m] < ps[n]

\* C24 (result grouping): the items that a run hands to notify are the
\* grouping of the keys notified in the run by (date, time, service): one
\* item per triple, listing exactly the party sizes notified for the
\* triple, each once, in ascending order.
C24_Grouping ==
    [][ (pc = "notify" /\ pc' = "idle")
            => GroupingOf(sent', found_this_run) ]_vars

\* a run has dispatched two items: the dinner slot for both party sizes and
\* the lunch slot for one
C24_Witness ==
    /\ pc = "idle"
    /\ Len(sent) = 2
    /\ \E i \in DOMAIN sent : sent[i].parties = <<PARTY_SIZES[1]>>
    /\ \E i \in DOMAIN sent : sent[i].parties = PARTY_SIZES

\* the party sizes of every group are distinct sizes of PARTY_SIZES, and
\* every group is rendered: there are as many items as groups
GroupsOfConfiguredSizes ==
    /\ \A i \in DOMAIN grouped_slots :
          LET ps == grouped_slots[i].parties
          IN  /\ ps # <<>>
              /\ \A n \in DOMAIN ps :
                    \E c \in DOMAIN PARTY_SIZES : ps[n] = PARTY_SIZES[c]
              /\ \A m, n \in DOMAIN ps : ps[m] = ps[n] => m = n
    /\ pc \in {"save", "notify"} => Len(items) = Len(grouped_slots)

-----------------------------------------------------------------------------
\* The configuration of a process: ENABLE_DINNER and ENABLE_LUNCH of the
\* watcher, the lines of VIP_WINDOWS of the VIP watcher.

\* a line of VIP_WINDOWS after strip(): blank or a "#" comment, or fields
\* separated by commas: the number of fields, whether int(), strptime and
\* parse_hm accept them, and the window they denote
NoWindow ==
    [date |-> 0, start_time |-> <<0, 0>>, end_time |-> <<0, 0>>,
     party_sizes |-> <<>>]
CommentLine ==
    [kind |-> "comment", parts |-> 0, parses |-> FALSE, window |-> NoWindow]
\* "2025-01-15,18:00": fewer than four fields
ShortLine ==
    [kind |-> "fields", parts |-> 2, parses |-> FALSE, window |-> NoWindow]
\* "tomorrow,18:00,20:00,2": strptime raises
BadDateLine ==
    [kind |-> "fields", parts |-> 4, parses |-> FALSE, window |-> NoWindow]
WindowLine(w) ==
    [kind |-> "fields", parts |-> 3 + Len(w.party_sizes), parses |-> TRUE,
     window |-> w]

\* parse_vip_windows: blank and comment lines are passed over, a line of
\* fewer than four fields and a line whose fields raise are skipped with a
\* warning, every other line yields its window
line_is_window(line) ==
    line.kind = "fields" /\ ~(line.parts < 4) /\ line.parses

parse_vip_windows(raw) ==
    LET lines == SelectSeq(raw, line_is_window)
    IN  [i \in 1..Len(lines) |-> lines[i].window]

\* a line that parse_vip_windows reports and skips
Unparsable(line) == line.kind = "fields" /\ ~line_is_window(line)

\* enabled_services(): Dinner first, then Lunch; the empty list stands for
\* SystemExit("No services enabled. ...")
enabled_services(c) ==
    (IF c.enable_dinner THEN <<"Dinner">> ELSE <<>>)
        \o (IF c.enable_lunch THEN <<"Lunch">> ELSE <<>>)

\* the values of VIP_WINDOWS: unset, a comment only, an unparsable line
\* only, the two windows of VipWindows, alone or with a comment or an
\* unparsable line before or between them
VipWindowLines == [i \in 1..Len(VipWindows) |-> WindowLine(VipWindows[i])]
VipRaws ==
    { <<>>, <<CommentLine>>, <<ShortLine>>, VipWindowLines,
      <<CommentLine>> \o VipWindowLines,
      <<ShortLine>> \o VipWindowLines,
      <<VipWindowLines[1], BadDateLine, VipWindowLines[2]>> }

\* a process runs one of the two programs
Configs ==
    { [program |-> "watcher", enable_dinner |-> d, enable_lunch |-> l,
       vip_raw |-> <<>>] : d, l \in BOOLEAN }
      \cup { [program |-> "vip", enable_dinner |-> TRUE,
              enable_lunch |-> FALSE, vip_raw |-> raw] : raw \in VipRaws }

\* run_once with no service enabled: enabled_services() raises SystemExit
\* on the first line, before load_seen and the loops
ConfigExit ==
    /\ cfg.program = "watcher"
    /\ pc = "idle"
    /\ enabled_services(cfg) = <<>>
    /\ pc' = "exit"
    /\ cur' = [NoCur EXCEPT !.outcome = "NO_SERVICES"]
    /\ UNCHANGED <<clock, MILESTONES, store, seen, now_ts, grouped_slots,
                   items, found_this_run, present_this_run, returned,
                   last_run, rerun, sent>>

\* run_once with a service enabled
ConfigStartRun ==
    /\ cfg.program = "watcher"
    /\ enabled_services(cfg) # <<>>
    /\ StartRunWith(TRUE)

\* the slot loop runs for the enabled services only
ConfigProcessSlot ==
    \E e \in Entries :
        /\ \E i \in DOMAIN enabled_services(cfg) :
               enabled_services(cfg)[i] = e.svc
        /\ ProcessEntry(e)

\* run_vip_watcher when parse_vip_windows returns no window: "No VIP
\* windows configured." and return
VipNoWindows ==
    /\ cfg.program = "vip"
    /\ vip_pc = "idle"
    /\ parse_vip_windows(cfg.vip_raw) = <<>>
    /\ vip_pc' = "done"
    /\ UNCHANGED <<lvars, vip_pos, vip_state, vip_store, notifications,
                   vip_found, probes_issued, limited, vip_sent>>

\* run_vip_watcher when parse_vip_windows returns the windows
ConfigVipStart ==
    /\ cfg.program = "vip"
    /\ parse_vip_windows(cfg.vip_raw) = VipWindows
    /\ VipStartWith(TRUE)

ConfigNext ==
    \/ ConfigExit /\ UNCHANGED aux
    \/ ConfigStartRun /\ UNCHANGED aux
    \/ ConfigProcessSlot /\ UNCHANGED aux
    \/ ProbeFail /\ UNCHANGED aux
    \/ FinishScan /\ UNCHANGED aux
    \/ SaveStateWith(TRUE) /\ UNCHANGED aux
    \/ Dispatch /\ UNCHANGED aux
    \/ VipNoWindows /\ UNCHANGED <<wvars, grid, ovars, hvars, cfg>>
    \/ ConfigVipStart /\ UNCHANGED <<wvars, grid, ovars, hvars, cfg>>
    \/ VipTick /\ UNCHANGED <<wrest, grid, ovars, hvars, cfg>>
    \/ VipProbeError /\ UNCHANGED <<wvars, grid, ovars, hvars, cfg>>
    \/ VipProbeOk /\ UNCHANGED <<wvars, grid, ovars, hvars, cfg>>
    \/ VipSaveWith(TRUE) /\ UNCHANGED <<wvars, grid, ovars, hvars, cfg>>
    \/ VipNotify /\ UNCHANGED <<wvars, grid, ovars, hvars, cfg>>

ConfigInit ==
    /\ WatcherInit /\ GridIdle /\ VipIdle /\ OverlapIdle /\ HistoryIdle
    /\ MILESTONES = <<3, 1, 0>>
    /\ max_per_hour = MAX_CHECKS_PER_HOUR
    /\ calls = <<>> /\ recorded = <<>> /\ outcomes = <<>>
    /\ cfg \in Configs

SpecConfig == ConfigInit /\ [][ConfigNext]_vars

\* the process has issued no request: neither the load of the state nor a
\* probe
NothingIssued ==
    /\ pc \in {"idle", "exit"} /\ now_ts = 0 /\ returned = {}
    /\ vip_pc \in {"idle", "done"} /\ probes_issued = <<>> /\ calls = <<>>

\* the watcher half: with no service enabled the process exits before it
\* loads the state or probes
NoServiceAborts ==
    (cfg.program = "watcher" /\ enabled_services(cfg) = <<>>)
        => NothingIssued /\ cur.outcome \in {NoCur.outcome, "NO_SERVICES"}

NoServiceAbortsWitness ==
    cfg.program = "watcher" /\ pc = "exit"

\* C25 (configuration error aborts): a process with no service enabled
\* exits before it loads or probes, and a process whose VIP_WINDOWS holds
\* an unparsable line issues no probe at all.
C25_ConfigErrorAborts ==
    /\ NoServiceAborts
    /\ (cfg.program = "vip"
          /\ \E i \in DOMAIN cfg.vip_raw : Unparsable(cfg.vip_raw[i]))
        => probes_issued = <<>> /\ vip_pc \in {"idle", "done"}

-----------------------------------------------------------------------------
\* Within-run dedupe

\* number of items of its that list key k: the items of the triple of k
\* whose parties hold the party size of k
ItemsOf(its, k) ==
    Cardinality({i \in DOMAIN its :
                    /\ its[i].slot = <<KeyDate(k), k[2], KeySvc(k)>>
                    /\ \E n \in DOMAIN its[i].parties :
                          its[i].parties[n] = KeyParty(k)})

\* the working state that the outcome of a key consists of
KeyOutcome == <<seen, grouped_slots, found_this_run, present_this_run>>

\* C27 (within-run dedupe): in a run every key is in the groups at most
\* once, and exactly once iff it is in found_this_run; the items handed to
\* notify list it at most once; and an entry that returns a key which the
\* previous entry of the run returned as well changes nothing: after a
\* notification it is passed over as a duplicate, after a skip it is
\* skipped for the same reason, and the working state stays as the first
\* of the two entries left it.
C27_WithinRunDedupe ==
    [][ /\ \A k \in Keys :
             /\ NotifiedCount(grouped_slots', k) <= 1
             /\ pc' # "idle" =>
                  (NotifiedCount(grouped_slots', k) = 1
                      <=> k \in found_this_run')
             /\ ItemsOf(items', k) <= 1
             /\ ItemsOf(sent', k) <= 1
        /\ (SlotStep /\ cur.key = cur'.key) =>
             /\ KeyOutcome' = KeyOutcome
             /\ cur'.outcome =
                  IF cur.outcome \in NotifyReasons \cup {"DUPLICATE"}
                  THEN "DUPLICATE" ELSE cur.outcome ]_vars

\* both keys have been notified in the run, and a key that has a stored
\* record has then been returned again
C27_Witness ==
    /\ pc = "scan"
    /\ cur.outcome = "DUPLICATE"
    /\ cur.key \in DOMAIN store
    /\ found_this_run = Keys
    /\ \A k \in Keys : NotifiedCount(grouped_slots, k) = 1

\* the same in a run of run_vip_watcher: no key is listed twice in the
\* notifications, and the keys listed are those of found_this_run
VipWithinRunDedupe ==
    /\ \A i, j \in DOMAIN notifications :
          notifications[i] = notifications[j] => i = j
    /\ vip_pc = "scan" =>
          {notifications[i] : i \in DOMAIN notifications} = vip_found

\* a run has notified a key, and a later probe of the run, after the
\* cooldown has passed, has returned it or another key
VipWithinRunDedupeWitness ==
    /\ vip_pc = "scan"
    /\ Len(notifications) = 1
    /\ clock >= vip_state[notifications[1]].last_notified + VIP_COOLDOWN
    /\ Len(probes_issued) > 2

-----------------------------------------------------------------------------
\* Probe failures and presence

\* the scan ends right after a probe has failed
ScanEndsOnFailure ==
    pc = "scan" /\ pc' = "save" /\ cur.outcome = "PROBE_FAILED"

\* C29 (probe failure is not absence): when the scan of a run ends after a
\* failed probe, a record that the run loaded as present and whose key no
\* probe of the run returned is not marked absent by the run.
C29_FailureNotAbsence ==
    [][ ScanEndsOnFailure =>
          \A k \in DOMAIN seen :
              (seen[k].present /\ k \notin returned) => seen'[k].present ]_vars

-----------------------------------------------------------------------------
\* Records and notifications

\* every record, stored or in the working state, carries the timestamp of
\* a notification
StoredRecordsNotified ==
    /\ \A k \in DOMAIN store : store[k].last_notified > 0
    /\ \A k \in DOMAIN seen : seen[k].last_notified > 0

\* a key gets its record in a step that notifies it
CreatedByNotification ==
    [][ \A k \in DOMAIN seen' \ DOMAIN seen :
          pc = "scan" =>
              /\ k \in found_this_run' \ found_this_run
              /\ seen'[k].last_notified = now_ts
              /\ seen'[k].present ]_vars

\* the store holds a record marked present and a record marked absent
StoredRecordsWitness ==
    /\ \E k \in DOMAIN store : store[k].present
    /\ \E k \in DOMAIN store : ~store[k].present

\* C30 (records and notifications): from the empty store on, every stored
\* record has last_notified > 0, and a key without stored record has not
\* been notified within the retention window: when a run has saved, every
\* key that it notified has a record in the store.
C30_RecordIffNotified ==
    [][ /\ StoredRecordsNotified'
        /\ (pc = "save" /\ pc' = "notify") =>
               \A k \in found_this_run : k \in DOMAIN store' ]_vars

-----------------------------------------------------------------------------
\* The far-future gate and the steady-state window

\* the last iteration reached the steady-state gating: its key has been
\* notified before and was present in the previous run
SteadyStateReached ==
    Decided /\ cur.last_notified > 0 /\ cur.was_present

\* C31 (too-far suppression is dead): whenever an iteration of run_once
\* reaches the steady-state gating, the lead time of its slot is at most
\* the limit of its service, the one the far-future gate has applied
\* before, and no iteration ends in the steady-state "too far" skip.
C31_TooFarNeverTaken ==
    /\ cur.outcome # "SKIP_TOO_FAR"
    /\ SteadyStateReached => cur.lead_days <= Ceiling(KeySvc(cur.key))

\* the steady-state gating has been reached for a dinner slot whose lead
\* time is exactly the limit, and it went on to the cooldown test
C31_Witness ==
    /\ SteadyStateReached
    /\ KeySvc(cur.key) = "Dinner"
    /\ cur.lead_days = DINNER_MAX_DAYS
    /\ cur.outcome \in {"COOLDOWN", "SKIP_COOLDOWN"}

====
